---- MODULE Spec2Model ----
(***************************************************************************)
(* A model of the dashing cache: the LRU policy (src/src/lru.rs) and the   *)
(* unbounded policy with its bincode snapshots (src/src/unbounded.rs),     *)
(* called by several threads through shared handles.  One atomic step of   *)
(* the model is one access to shared state: one DashMap call (a shard      *)
(* lock), one critical section of the order mutex, one atomic counter      *)
(* update, one file system call.                                           *)
(***************************************************************************)
EXTENDS Integers, Sequences, FiniteSets, TLC

\* ---------------------------------------------------------------- bounds

MaxKey == 3
MaxSnapshotKey == 2
MaxCapacity == 2
NumThreads == 2
NumTestThreads == 3
MaxOps == 4
MaxOverlapOps == 3
MaxFairOps == 3

Threads == 1..NumThreads

\* The threads test_multithreaded spawns, and the value thread i inserts for
\* its key i.
TestThreads == 1..NumTestThreads
TestValue(i) == <<96 + i>>

\* The keys the callers use: the LRU runs need one key more than the largest
\* capacity, the snapshot runs two keys in two caches.
Keys(pol) == IF pol = "LRU" THEN 1..MaxKey ELSE 1..MaxSnapshotKey

\* Values are Rust Strings, held as their UTF-8 bytes: "a" and "b".
Values == {<<97>>, <<98>>}

\* The hash of a key picks its shard.  The hasher is randomly keyed, so which
\* keys share a shard differs from one construction to the next: 1 makes all
\* keys collide, 2 sets the even keys apart from the odd ones.
ShardAmounts == {1, 2}

Paths == {"dashing.cache", "no_such_dir/dashing.cache"}

\* File::create fails on a path whose directory does not exist.
Creatable(p) == p = "dashing.cache"

Policies == {"LRU", "Unbounded"}

\* The policy's handles: the LRU tests share one cache between threads, the
\* snapshot example writes one unbounded cache and reads into a second one.
Instances(pol) == IF pol = "LRU" THEN {"cache"} ELSE {"cache", "cache2"}

\* ------------------------------------------------------------- Option<T>

None == [kind |-> "None", val |-> <<>>]
Some(v) == [kind |-> "Some", val |-> v]
Unit == [kind |-> "unit", val |-> <<>>]
Ok == [kind |-> "Ok", val |-> <<>>]
Err(e) == [kind |-> "Err", val |-> e]
Pending == [kind |-> "pending", val |-> <<>>]
Panic == [kind |-> "panic", val |-> <<>>]

\* ------------------------------------------------- bincode (fixint, LE)

U64Len == 8
I32Len == 4

RECURSIVE ToLE(_, _)
\* n in w little-endian bytes (two's complement for a negative n).
ToLE(n, w) == IF w = 0 THEN <<>> ELSE <<n % 256>> \o ToLE(n \div 256, w - 1)

serialize_u64(n) == ToLE(n, U64Len)
serialize_i32(k) == ToLE(k, I32Len)
serialize_str(s) == serialize_u64(Len(s)) \o s
serialize_entry(e) == serialize_i32(e[1]) \o serialize_str(e[2])

RECURSIVE serialize_seq(_)
serialize_seq(es) ==
    IF es = <<>> THEN <<>> ELSE serialize_entry(Head(es)) \o serialize_seq(Tail(es))

\* bincode::serialize(&entries) for entries: Vec<(i32, String)>.
serialize(entries) == serialize_u64(Len(entries)) \o serialize_seq(entries)

\* A u64 read at b[pos..]; a value that does not fit the model's integers is
\* larger than any file of the model, and is read as Len(b) + 1: every use
\* of it (an element count, a string length) runs past the end either way.
deserialize_u64(b, pos) ==
    IF pos + U64Len - 1 > Len(b)
    THEN [ok |-> FALSE, val |-> 0, next |-> pos]
    ELSE LET big == \/ \E i \in 4..7 : b[pos + i] # 0
                    \/ b[pos + 3] >= 128
             v == b[pos] + 256 * b[pos + 1] + 65536 * b[pos + 2]
                    + 16777216 * b[pos + 3]
         IN [ok |-> TRUE,
             val |-> IF big THEN Len(b) + 1 ELSE v,
             next |-> pos + U64Len]

deserialize_i32(b, pos) ==
    IF pos + I32Len - 1 > Len(b)
    THEN [ok |-> FALSE, val |-> 0, next |-> pos]
    ELSE [ok |-> TRUE,
          val |-> b[pos] + 256 * b[pos + 1] + 65536 * b[pos + 2]
                    + 16777216 * (IF b[pos + 3] >= 128 THEN b[pos + 3] - 256
                                  ELSE b[pos + 3]),
          next |-> pos + I32Len]

\* String::from_utf8 on the bytes the model's files are made of: ASCII bytes
\* are valid, 0xFF is valid nowhere in UTF-8.
Utf8Valid(s) == \A i \in 1..Len(s) : s[i] < 128

deserialize_str(b, pos) ==
    LET n == deserialize_u64(b, pos)
    IN IF ~n.ok \/ n.next + n.val - 1 > Len(b)
       THEN [ok |-> FALSE, val |-> <<>>, next |-> pos]
       ELSE LET s == SubSeq(b, n.next, n.next + n.val - 1)
            IN [ok |-> Utf8Valid(s), val |-> s, next |-> n.next + n.val]

RECURSIVE deserialize_seq(_, _, _, _)
deserialize_seq(b, pos, n, acc) ==
    IF n = 0 THEN [ok |-> TRUE, entries |-> acc]
    ELSE LET k == deserialize_i32(b, pos)
             v == deserialize_str(b, k.next)
         IN IF ~k.ok \/ ~v.ok THEN [ok |-> FALSE, entries |-> <<>>]
            ELSE deserialize_seq(b, v.next, n - 1, Append(acc, <<k.val, v.val>>))

\* bincode::deserialize::<Vec<(i32, String)>>(&encoded): bytes after the last
\* element are allowed.
deserialize(b) ==
    LET n == deserialize_u64(b, 1)
    IN IF ~n.ok THEN [ok |-> FALSE, entries |-> <<>>]
       ELSE deserialize_seq(b, n.next, n.val, <<>>)

\* ----------------------------------------------------------- DashMap<K, V>

EmptyMap == [k \in {} |-> <<>>]
MapInsert(m, k, v) == [x \in DOMAIN m \cup {k} |-> IF x = k THEN v ELSE m[x]]
MapRemove(m, k) == [x \in DOMAIN m \ {k} |-> m[x]]
MapGet(m, k) == IF k \in DOMAIN m THEN Some(m[k]) ELSE None

\* ------------------------------------------------------------- VecDeque<K>

\* order.iter().position(|k| *k == key): the first index holding key, 0 for None.
Position(q, k) ==
    IF \E i \in 1..Len(q) : q[i] = k
    THEN CHOOSE i \in 1..Len(q) : q[i] = k /\ \A j \in 1..(i - 1) : q[j] # k
    ELSE 0

\* order.remove(pos)
RemoveAt(q, i) == SubSeq(q, 1, i - 1) \o SubSeq(q, i + 1, Len(q))

\* The orders in which an iteration can yield the entries of one shard.
Perms(S) ==
    {q \in [1..Cardinality(S) -> S] : \A i, j \in 1..Cardinality(S) : q[i] = q[j] => i = j}

\* ------------------------------------------------------------------ state

VARIABLES
    policy,        \* the variant the facade was constructed with
    capacity,      \* LRUInner::capacity
    shard_amount,  \* how the hasher spreads the keys over the shards
    map,           \* per handle: the DashMap, a function from the keys present
    order,         \* per handle: LRUInner::order, least recent first
    hits,          \* per handle: Statistics hits
    misses,        \* per handle: Statistics misses
    files,         \* the file system: per path, whether it exists and its bytes
    pc,            \* per thread: where it is in the call it runs
    args,          \* per thread: the call it runs
    loc,           \* per thread: the locals of the call
    out,           \* the call that returned in the last step, and its result
    nops,          \* calls and file system events so far
    hist,          \* history of a run whose calls never overlapped
    recency,       \* history: the keys of the LRU cache by last touch, oldest first
    gets,          \* history, per handle: the get calls that have returned
    ins,           \* history, per handle: the pairs inserted, while only inserted
    detached,      \* history: the keys whose value a remove took, not stored since
    prev           \* history, per test thread: the call it returned from last

config == <<policy, capacity, shard_amount>>
vars == <<policy, capacity, shard_amount, map, order, hits, misses, files,
          pc, args, loc, out, nops, hist, recency, gets, ins, detached,
          prev>>

ShardOf(k) == k % shard_amount
ShardKeys(m, s) == {k \in DOMAIN m : ShardOf(k) = s}

NoFile == [exists |-> FALSE, bytes |-> <<>>]
File(b) == [exists |-> TRUE, bytes |-> b]

NoArgs == [op |-> "none", self |-> "cache", key |-> 0, value |-> <<>>, path |-> ""]
NoLoc ==
    [oldest |-> None, value |-> <<>>, cursor |-> 0, entries |-> <<>>, linked |-> FALSE]
NoOut == [t |-> 0, call |-> NoArgs, ret |-> Pending]

\* A dashmap Ref is alive: the thread holds the read lock of its key's shard.
HoldsGuard(t) == args[t].op = "get" /\ pc[t] \in {"update_order", "add_hit"}

\* The write lock of shard s of handle c is free for t to take.
CanWrite(t, c, s) ==
    \A u \in DOMAIN pc \ {t} :
        ~(HoldsGuard(u) /\ args[u].self = c /\ ShardOf(args[u].key) = s)

Running(t) == pc[t] \notin {"idle", "panicked"}
Quiescent == \A t \in DOMAIN pc : ~Running(t)

\* The state of handle c, as a call that runs alone finds it.
Snapshot(c) ==
    [taken |-> TRUE, map |-> map[c], order |-> order[c], hits |-> hits[c],
     misses |-> misses[c]]
NoSnapshot ==
    [taken |-> FALSE, map |-> EmptyMap, order |-> <<>>, hits |-> 0, misses |-> 0]

\* The path and the map of the latest write that returned Ok, while the file
\* is as that write left it.
NoSaved == [path |-> "", map |-> EmptyMap]

\* hist.solo: no call so far began, and no file changed, while another call
\* ran.  Then hist.pre is the state of the latest call's handle when the call
\* began (none once a file system event came after it), and hist.saved the
\* latest snapshot written.  It is dropped when calls overlap.
NoHist == [solo |-> FALSE, pre |-> NoSnapshot, saved |-> NoSaved]

\* The threads of a run of arbitrary calls keep no record of their last call.
NoRecord == [NoArgs EXCEPT !.op = "unrecorded"]

\* A cache of policy pol, shared by the threads T, whose record of their last
\* call starts as first.
InitFor(pol, T, first) ==
    /\ policy = pol
    /\ capacity \in (IF policy = "LRU" THEN 1..MaxCapacity ELSE {0})
    /\ shard_amount \in ShardAmounts
    /\ map = [c \in Instances(policy) |-> EmptyMap]
    /\ order = [c \in Instances(policy) |-> <<>>]
    /\ hits = [c \in Instances(policy) |-> 0]
    /\ misses = [c \in Instances(policy) |-> 0]
    /\ files = [p \in Paths |-> NoFile]
    /\ pc = [t \in T |-> "idle"]
    /\ args = [t \in T |-> NoArgs]
    /\ loc = [t \in T |-> NoLoc]
    /\ prev = [t \in T |-> first]
    /\ out = NoOut
    /\ nops = 0
    /\ hist = [NoHist EXCEPT !.solo = TRUE]
    /\ recency = <<>>
    /\ gets = [c \in Instances(policy) |-> 0]
    /\ ins = [c \in Instances(policy) |-> [only |-> TRUE, pairs |-> {}]]
    /\ detached = {}

InitWith(pol) == InitFor(pol, Threads, NoRecord)

Init == \E pol \in Policies : InitWith(pol)

\* ------------------------------------------------------------------ calls

Mutates(op) == op \in {"remove", "clear", "read"}

\* The length of a run.  The runs of the two unbounded caches and the file
\* system are shorter, unless their calls never overlap.
Budget ==
    IF policy = "LRU" \/ (hist.solo /\ Quiescent) THEN MaxOps ELSE MaxOverlapOps

\* Thread t begins the call a.
Begin(t, a) ==
    /\ pc[t] = "idle"
    /\ nops' = nops + 1
    /\ pc' = [pc EXCEPT ![t] = a.op]
    /\ args' = [args EXCEPT ![t] = a]
    /\ loc' = [loc EXCEPT ![t] = NoLoc]
    /\ out' = NoOut
    /\ hist' = IF hist.solo /\ Quiescent
               THEN [hist EXCEPT !.pre = Snapshot(a.self)]
               ELSE NoHist
    /\ ins' = [ins EXCEPT ![a.self] =
                 IF a.op = "insert" /\ @.only
                 THEN [@ EXCEPT !.pairs = @ \cup {<<a.key, a.value>>}]
                 ELSE IF Mutates(a.op) THEN [only |-> FALSE, pairs |-> {}]
                 ELSE @]
    /\ UNCHANGED <<config, map, order, hits, misses, files, recency, gets, detached,
                   prev>>

Enter(t, a) == nops < Budget /\ Begin(t, a)

CallInsert(t) ==
    \E c \in Instances(policy), k \in Keys(policy), v \in Values :
        Enter(t, [NoArgs EXCEPT !.op = "insert", !.self = c, !.key = k, !.value = v])

CallGet(t) ==
    \E c \in Instances(policy), k \in Keys(policy) :
        Enter(t, [NoArgs EXCEPT !.op = "get", !.self = c, !.key = k])

CallRemove(t) ==
    \E c \in Instances(policy), k \in Keys(policy) :
        Enter(t, [NoArgs EXCEPT !.op = "remove", !.self = c, !.key = k])

CallClear(t) ==
    \E c \in Instances(policy) :
        Enter(t, [NoArgs EXCEPT !.op = "clear", !.self = c])

CallWrite(t) ==
    \E c \in Instances(policy), p \in Paths :
        Enter(t, [NoArgs EXCEPT !.op = "write", !.self = c, !.path = p])

CallRead(t) ==
    \E c \in Instances(policy), p \in Paths :
        Enter(t, [NoArgs EXCEPT !.op = "read", !.self = c, !.path = p])

\* The call of t returns r.
Return(t, r) ==
    /\ pc' = [pc EXCEPT ![t] = "idle"]
    /\ args' = [args EXCEPT ![t] = NoArgs]
    /\ loc' = [loc EXCEPT ![t] = NoLoc]
    /\ out' = [t |-> t, call |-> args[t], ret |-> r]
    /\ prev' = [prev EXCEPT ![t] = IF @ = NoRecord THEN @ ELSE args[t]]

\* The call of t goes on at l, or where it is.
Goto(t, l) == pc' = [pc EXCEPT ![t] = l] /\ UNCHANGED <<args, prev>> /\ out' = NoOut
Stay(t) == UNCHANGED <<pc, args, prev>> /\ out' = NoOut

\* A value is stored for key k of handle c: what a remove took before is not
\* the value a later remove takes.
Stored(c, k) == detached' = detached \ {<<c, k>>}

\* ------------------------------------------------------------- Statistics

add_hit(c) == hits' = [hits EXCEPT ![c] = @ + 1]
add_miss(c) == misses' = [misses EXCEPT ![c] = @ + 1]

\* -------------------------------------------------------------------- LRU

\* A faulty update_order: the key pushed at the back, its prior occurrence
\* left where it is.
update_order_push_only(q, k) == Append(q, k)

\* The order after update_order(key), lines 73-77: the prior occurrence
\* removed, the key pushed at the back.
update_order(q, k) ==
    LET pos == Position(q, k)
    IN Append(IF pos # 0 THEN RemoveAt(q, pos) ELSE q, k)

\* The keys by their last touch, after a touch of k.
Touch(q, k) == SelectSeq(q, LAMBDA x : x # k) \o <<k>>

\* insert, line 87: self.inner.map.insert(key.clone(), value)
LruInsertMap(t) ==
    LET c == args[t].self
        k == args[t].key
    IN /\ policy = "LRU"
       /\ pc[t] = "insert"
       /\ CanWrite(t, c, ShardOf(k))
       /\ map' = [map EXCEPT ![c] = MapInsert(@, k, args[t].value)]
       /\ Goto(t, "update_order")
       /\ Stored(c, k)
       /\ UNCHANGED <<config, order, hits, misses, files, loc, nops,
                      hist, recency, gets, ins>>

\* A faulty touch: the key pushed at the back of the order, its prior
\* occurrence left in place.
LruUpdateOrderAppending(t) ==
    LET c == args[t].self
    IN /\ policy = "LRU"
       /\ pc[t] = "update_order"
       /\ order' = [order EXCEPT ![c] = Append(@, args[t].key)]
       /\ Goto(t, IF args[t].op = "insert" THEN "evict_if_needed" ELSE "add_hit")
       /\ recency' = Touch(recency, args[t].key)
       /\ UNCHANGED <<config, map, hits, misses, files, loc, nops,
                      hist, gets, ins, detached>>

\* A faulty touch: update_order first takes the write lock of its key's
\* shard, which the get that calls it holds a guard on.
LruUpdateOrderRelocking(t) ==
    LET c == args[t].self
    IN /\ policy = "LRU"
       /\ pc[t] = "update_order"
       /\ \A u \in DOMAIN pc :
             ~(HoldsGuard(u) /\ args[u].self = c
                 /\ ShardOf(args[u].key) = ShardOf(args[t].key))
       /\ order' = [order EXCEPT ![c] = update_order(@, args[t].key)]
       /\ Goto(t, IF args[t].op = "insert" THEN "evict_if_needed" ELSE "add_hit")
       /\ recency' = Touch(recency, args[t].key)
       /\ UNCHANGED <<config, map, hits, misses, files, loc, nops,
                      hist, gets, ins, detached>>

\* update_order, called by insert (line 88, then evict_if_needed) and by a
\* get that hit (line 94, then add_hit, its Ref still alive).
LruUpdateOrder(t) ==
    LET c == args[t].self
    IN /\ policy = "LRU"
       /\ pc[t] = "update_order"
       /\ order' = [order EXCEPT ![c] = update_order(@, args[t].key)]
       /\ Goto(t, IF args[t].op = "insert" THEN "evict_if_needed" ELSE "add_hit")
       /\ recency' = Touch(recency, args[t].key)
       /\ UNCHANGED <<config, map, hits, misses, files, loc, nops,
                      hist, gets, ins, detached>>

\* evict_if_needed, lines 58-65: under the order lock, pop the front when the
\* order is longer than the capacity.
LruEvictPop(t) ==
    LET c == args[t].self
    IN /\ policy = "LRU"
       /\ pc[t] = "evict_if_needed"
       /\ IF Len(order[c]) > capacity
          THEN /\ order' = [order EXCEPT ![c] = Tail(@)]
               /\ loc' = [loc EXCEPT ![t].oldest = Some(Head(order[c]))]
               /\ Goto(t, "evict_remove")
          ELSE /\ Return(t, Unit)
               /\ UNCHANGED order
       /\ UNCHANGED <<config, map, hits, misses, files, nops,
                      hist, recency, gets, ins, detached>>

\* evict_if_needed, lines 67-69: the order lock released, map.remove(&key).
LruEvictRemove(t) ==
    LET c == args[t].self
        k == loc[t].oldest.val
    IN /\ policy = "LRU"
       /\ pc[t] = "evict_remove"
       /\ CanWrite(t, c, ShardOf(k))
       /\ map' = [map EXCEPT ![c] = MapRemove(@, k)]
       /\ Return(t, Unit)
       /\ UNCHANGED <<config, order, hits, misses, files, nops,
                      hist, recency, gets, ins, detached>>

\* get, line 93: map.get(key); a Some keeps the shard read-locked.
LruGetMap(t) ==
    LET c == args[t].self
    IN /\ policy = "LRU"
       /\ pc[t] = "get"
       /\ Goto(t, IF MapGet(map[c], args[t].key).kind = "Some"
                  THEN "update_order" ELSE "add_miss")
       /\ UNCHANGED <<config, map, order, hits, misses, files, loc,
                      nops, hist, recency, gets, ins, detached>>

\* A faulty get: the value returned, the hit not counted.
LruGetHitUncounted(t) ==
    LET c == args[t].self
    IN /\ policy = "LRU"
       /\ pc[t] = "add_hit"
       /\ Return(t, MapGet(map[c], args[t].key))
       /\ gets' = [gets EXCEPT ![c] = @ + 1]
       /\ UNCHANGED <<config, map, order, hits, misses, files, nops,
                      hist, recency, ins, detached>>

\* get, lines 95-96: add_hit, clone the value, drop the Ref.
LruGetHit(t) ==
    LET c == args[t].self
    IN /\ policy = "LRU"
       /\ pc[t] = "add_hit"
       /\ add_hit(c)
       /\ Return(t, MapGet(map[c], args[t].key))
       /\ gets' = [gets EXCEPT ![c] = @ + 1]
       /\ UNCHANGED <<config, map, order, misses, files, nops,
                      hist, recency, ins, detached>>

\* A faulty get: a miss touches the key in the order all the same.
LruGetMissTouching(t) ==
    LET c == args[t].self
    IN /\ policy = "LRU"
       /\ pc[t] = "add_miss"
       /\ add_miss(c)
       /\ order' = [order EXCEPT ![c] = update_order(@, args[t].key)]
       /\ Return(t, None)
       /\ gets' = [gets EXCEPT ![c] = @ + 1]
       /\ UNCHANGED <<config, map, hits, files, nops,
                      hist, recency, ins, detached>>

\* get, lines 98-99
LruGetMiss(t) ==
    LET c == args[t].self
    IN /\ policy = "LRU"
       /\ pc[t] = "add_miss"
       /\ add_miss(c)
       /\ Return(t, None)
       /\ gets' = [gets EXCEPT ![c] = @ + 1]
       /\ UNCHANGED <<config, map, order, hits, files, nops,
                      hist, recency, ins, detached>>

\* A faulty remove: the value read with map.get, the key left in the map.
LruRemoveMapPeek(t) ==
    LET c == args[t].self
        k == args[t].key
        got == MapGet(map[c], k)
    IN /\ policy = "LRU"
       /\ pc[t] = "remove"
       /\ IF got.kind = "Some"
          THEN /\ Goto(t, "remove_order")
               /\ loc' = [loc EXCEPT ![t].value = got.val]
               /\ detached' = detached \cup {<<c, k>>}
          ELSE /\ Return(t, None)
               /\ UNCHANGED detached
       /\ UNCHANGED <<config, map, order, hits, misses, files, nops,
                      hist, recency, gets, ins>>

\* remove, line 104: map.remove(key)
LruRemoveMap(t) ==
    LET c == args[t].self
        k == args[t].key
        got == MapGet(map[c], k)
    IN /\ policy = "LRU"
       /\ pc[t] = "remove"
       /\ CanWrite(t, c, ShardOf(k))
       /\ map' = [map EXCEPT ![c] = MapRemove(@, k)]
       /\ IF got.kind = "Some"
          THEN /\ Goto(t, "remove_order")
               /\ loc' = [loc EXCEPT ![t].value = got.val]
               /\ detached' = detached \cup {<<c, k>>}
          ELSE /\ Return(t, None)
               /\ UNCHANGED detached
       /\ UNCHANGED <<config, order, hits, misses, files, nops,
                      hist, recency, gets, ins>>

\* A faulty remove: the value returned, the key left in the order.
LruRemoveOrderSkipping(t) ==
    /\ policy = "LRU"
    /\ pc[t] = "remove_order"
    /\ Return(t, Some(loc[t].value))
    /\ UNCHANGED <<config, map, order, hits, misses, files, nops,
                   hist, recency, gets, ins, detached>>

\* remove, lines 105-109: under the order lock, drop the key's position.
LruRemoveOrder(t) ==
    LET c == args[t].self
        pos == Position(order[c], args[t].key)
    IN /\ policy = "LRU"
       /\ pc[t] = "remove_order"
       /\ order' = [order EXCEPT ![c] = IF pos # 0 THEN RemoveAt(@, pos) ELSE @]
       /\ Return(t, Some(loc[t].value))
       /\ UNCHANGED <<config, map, hits, misses, files, nops,
                      hist, recency, gets, ins, detached>>

\* clear, line 116: map.clear() write-locks and empties one shard after the
\* other.
LruClearShard(t) ==
    LET c == args[t].self
        s == loc[t].cursor
    IN /\ policy = "LRU"
       /\ pc[t] = "clear"
       /\ CanWrite(t, c, s)
       /\ map' = [map EXCEPT ![c] = [k \in DOMAIN @ \ ShardKeys(@, s) |-> @[k]]]
       /\ loc' = [loc EXCEPT ![t].cursor = s + 1]
       /\ Goto(t, IF s + 1 = shard_amount THEN "clear_order" ELSE "clear")
       /\ UNCHANGED <<config, order, hits, misses, files, nops,
                      hist, recency, gets, ins, detached>>

\* A faulty clear: the order kept as it is.
LruClearOrderKeeping(t) ==
    LET c == args[t].self
    IN /\ policy = "LRU"
       /\ pc[t] = "clear_order"
       /\ Return(t, Unit)
       /\ UNCHANGED <<config, map, order, hits, misses, files, nops,
                      hist, recency, gets, ins, detached>>

\* clear, lines 117-118
LruClearOrder(t) ==
    LET c == args[t].self
    IN /\ policy = "LRU"
       /\ pc[t] = "clear_order"
       /\ order' = [order EXCEPT ![c] = <<>>]
       /\ Return(t, Unit)
       /\ UNCHANGED <<config, map, hits, misses, files, nops,
                      hist, recency, gets, ins, detached>>

\* write and read, lines 137-145: todo!() panics, the thread unwinds.
LruTodo(t) ==
    /\ policy = "LRU"
    /\ pc[t] \in {"write", "read"}
    /\ pc' = [pc EXCEPT ![t] = "panicked"]
    /\ args' = [args EXCEPT ![t] = NoArgs]
    /\ out' = [t |-> t, call |-> args[t], ret |-> Panic]
    /\ UNCHANGED <<config, map, order, hits, misses, files, loc, nops,
                   hist, recency, gets, ins, detached, prev>>

\* -------------------------------------------------------------- Unbounded

\* A faulty insert: the unbounded cache keeps one entry per shard.
UnbInsertEvicting(t) ==
    LET c == args[t].self
        k == args[t].key
    IN /\ policy = "Unbounded"
       /\ pc[t] = "insert"
       /\ CanWrite(t, c, ShardOf(k))
       /\ map' = [map EXCEPT ![c] =
                    MapInsert([x \in DOMAIN @ \ ShardKeys(@, ShardOf(k)) |-> @[x]],
                              k, args[t].value)]
       /\ Return(t, Unit)
       /\ Stored(c, k)
       /\ UNCHANGED <<config, order, hits, misses, files, nops,
                      hist, recency, gets, ins>>

\* A faulty clone: every thread but the first inserts into storage of its own.
UnbInsertPrivate(t) ==
    LET c == IF t = 1 THEN args[t].self ELSE "cache2"
        k == args[t].key
    IN /\ policy = "Unbounded"
       /\ pc[t] = "insert"
       /\ map' = [map EXCEPT ![c] = MapInsert(@, k, args[t].value)]
       /\ Return(t, Unit)
       /\ Stored(c, k)
       /\ UNCHANGED <<config, order, hits, misses, files, nops,
                      hist, recency, gets, ins>>

\* insert, line 51
UnbInsert(t) ==
    LET c == args[t].self
        k == args[t].key
    IN /\ policy = "Unbounded"
       /\ pc[t] = "insert"
       /\ CanWrite(t, c, ShardOf(k))
       /\ map' = [map EXCEPT ![c] = MapInsert(@, k, args[t].value)]
       /\ Return(t, Unit)
       /\ Stored(c, k)
       /\ UNCHANGED <<config, order, hits, misses, files, nops,
                      hist, recency, gets, ins>>

\* get, line 55: map.get(key); a Some keeps the shard read-locked.
UnbGetMap(t) ==
    LET c == args[t].self
    IN /\ policy = "Unbounded"
       /\ pc[t] = "get"
       /\ Goto(t, IF MapGet(map[c], args[t].key).kind = "Some"
                  THEN "add_hit" ELSE "add_miss")
       /\ UNCHANGED <<config, map, order, hits, misses, files, loc,
                      nops, hist, recency, gets, ins, detached>>

\* get, lines 56-57
UnbGetHit(t) ==
    LET c == args[t].self
    IN /\ policy = "Unbounded"
       /\ pc[t] = "add_hit"
       /\ add_hit(c)
       /\ Return(t, MapGet(map[c], args[t].key))
       /\ gets' = [gets EXCEPT ![c] = @ + 1]
       /\ UNCHANGED <<config, map, order, misses, files, nops,
                      hist, recency, ins, detached>>

\* get, lines 59-60
UnbGetMiss(t) ==
    LET c == args[t].self
    IN /\ policy = "Unbounded"
       /\ pc[t] = "add_miss"
       /\ add_miss(c)
       /\ Return(t, None)
       /\ gets' = [gets EXCEPT ![c] = @ + 1]
       /\ UNCHANGED <<config, map, order, hits, files, nops,
                      hist, recency, ins, detached>>

\* remove, line 65
UnbRemove(t) ==
    LET c == args[t].self
        k == args[t].key
    IN /\ policy = "Unbounded"
       /\ pc[t] = "remove"
       /\ CanWrite(t, c, ShardOf(k))
       /\ map' = [map EXCEPT ![c] = MapRemove(@, k)]
       /\ Return(t, MapGet(map[c], k))
       /\ detached' = IF k \in DOMAIN map[c] THEN detached \cup {<<c, k>>} ELSE detached
       /\ UNCHANGED <<config, order, hits, misses, files, nops,
                      hist, recency, gets, ins>>

\* A faulty clear: the counters reset with the entries.
UnbClearShardResetting(t) ==
    LET c == args[t].self
        s == loc[t].cursor
    IN /\ policy = "Unbounded"
       /\ pc[t] = "clear"
       /\ CanWrite(t, c, s)
       /\ map' = [map EXCEPT ![c] = [k \in DOMAIN @ \ ShardKeys(@, s) |-> @[k]]]
       /\ hits' = [hits EXCEPT ![c] = 0]
       /\ misses' = [misses EXCEPT ![c] = 0]
       /\ gets' = [gets EXCEPT ![c] = 0]
       /\ IF s + 1 = shard_amount
          THEN Return(t, Unit)
          ELSE /\ loc' = [loc EXCEPT ![t].cursor = s + 1]
               /\ Stay(t)
       /\ UNCHANGED <<config, order, files, nops,
                      hist, recency, ins, detached>>

\* clear, line 69: map.clear() write-locks and empties one shard after the
\* other.
UnbClearShard(t) ==
    LET c == args[t].self
        s == loc[t].cursor
    IN /\ policy = "Unbounded"
       /\ pc[t] = "clear"
       /\ CanWrite(t, c, s)
       /\ map' = [map EXCEPT ![c] = [k \in DOMAIN @ \ ShardKeys(@, s) |-> @[k]]]
       /\ IF s + 1 = shard_amount
          THEN Return(t, Unit)
          ELSE /\ loc' = [loc EXCEPT ![t].cursor = s + 1]
               /\ Stay(t)
       /\ UNCHANGED <<config, order, hits, misses, files, nops,
                      hist, recency, gets, ins, detached>>

\* write, lines 90-95: File::create truncates the file or makes it.
UnbWriteCreate(t) ==
    LET p == args[t].path
    IN /\ policy = "Unbounded"
       /\ pc[t] = "write"
       /\ IF Creatable(p)
          THEN /\ files' = [files EXCEPT ![p] = File(<<>>)]
               /\ loc' = [loc EXCEPT ![t].linked = TRUE]
               /\ Goto(t, "write_collect")
               /\ hist' = [hist EXCEPT !.saved = IF @.path = p THEN NoSaved ELSE @]
          ELSE /\ Return(t, Err("io"))
               /\ UNCHANGED <<files, hist>>
       /\ UNCHANGED <<config, map, order, hits, misses, nops,
                      recency, gets, ins, detached>>

\* A faulty write: the entries drained from the map as they are collected.
UnbWriteCollectDraining(t) ==
    LET c == args[t].self
        s == loc[t].cursor
    IN /\ policy = "Unbounded"
       /\ pc[t] = "write_collect"
       /\ CanWrite(t, c, s)
       /\ \E q \in Perms(ShardKeys(map[c], s)) :
              loc' = [loc EXCEPT ![t].cursor = s + 1,
                                 ![t].entries = @ \o [i \in 1..Len(q) |-> <<q[i], map[c][q[i]]>>]]
       /\ map' = [map EXCEPT ![c] = [k \in DOMAIN @ \ ShardKeys(@, s) |-> @[k]]]
       /\ Goto(t, IF s + 1 = shard_amount THEN "write_flush" ELSE "write_collect")
       /\ UNCHANGED <<config, order, hits, misses, files, nops,
                      hist, recency, gets, ins, detached>>

\* write, lines 98-103: map.iter() read-locks one shard after the other and
\* yields its entries in the order of its table.
UnbWriteCollect(t) ==
    LET c == args[t].self
        s == loc[t].cursor
    IN /\ policy = "Unbounded"
       /\ pc[t] = "write_collect"
       /\ \E q \in Perms(ShardKeys(map[c], s)) :
              loc' = [loc EXCEPT ![t].cursor = s + 1,
                                 ![t].entries = @ \o [i \in 1..Len(q) |-> <<q[i], map[c][q[i]]>>]]
       /\ Goto(t, IF s + 1 = shard_amount THEN "write_flush" ELSE "write_collect")
       /\ UNCHANGED <<config, map, order, hits, misses, files, nops,
                      hist, recency, gets, ins, detached>>

\* n bytes of b written at offset 0 of a file holding old.
Overwrite(old, b, n) == SubSeq(b, 1, n) \o SubSeq(old, n + 1, Len(old))

\* How much of b a write that fails leaves in the file: nothing, all but the
\* last byte, or all of it (the BufWriter flushes again when it is dropped).
PartialWrites(b) == {0, Len(b) - 1, Len(b)}

\* write, lines 106-123: serialize, write_all, flush; Ok, or Err on an I/O
\* error.  The handle writes to the file it created, which is no longer the
\* path's when the file was removed since.
UnbWriteFlush(t) ==
    LET p == args[t].path
        encoded == serialize(loc[t].entries)
    IN /\ policy = "Unbounded"
       /\ pc[t] = "write_flush"
       /\ \/ /\ files' = IF loc[t].linked
                         THEN [files EXCEPT ![p] = File(Overwrite(@.bytes, encoded, Len(encoded)))]
                         ELSE files
             /\ Return(t, Ok)
             /\ hist' = IF hist.solo
                        THEN [hist EXCEPT !.saved = [path |-> p, map |-> map[args[t].self]]]
                        ELSE hist
          \/ /\ \E n \in PartialWrites(encoded) :
                   files' = IF loc[t].linked
                            THEN [files EXCEPT ![p] = File(Overwrite(@.bytes, encoded, n))]
                            ELSE files
             /\ Return(t, Err("io"))
             /\ UNCHANGED hist
       /\ UNCHANGED <<config, map, order, hits, misses, nops,
                      recency, gets, ins, detached>>

\* A faulty read: the cache cleared before the file is looked at.
UnbReadFileClearing(t) ==
    LET f == files[args[t].path]
        decoded == deserialize(f.bytes)
    IN /\ policy = "Unbounded"
       /\ pc[t] = "read"
       /\ map' = [map EXCEPT ![args[t].self] = EmptyMap]
       /\ IF ~f.exists THEN Return(t, Err("io"))
          ELSE IF f.bytes = <<>> THEN Return(t, Err("File is empty"))
          ELSE IF ~decoded.ok THEN Return(t, Err("decode"))
          ELSE IF decoded.entries = <<>> THEN Return(t, Ok)
          ELSE /\ loc' = [loc EXCEPT ![t].entries = decoded.entries]
               /\ Goto(t, "read_insert")
       /\ UNCHANGED <<config, order, hits, misses, files, nops,
                      hist, recency, gets, ins, detached>>

\* read, lines 128-146: std::fs::read, the empty check, bincode::deserialize.
UnbReadFile(t) ==
    LET f == files[args[t].path]
        decoded == deserialize(f.bytes)
    IN /\ policy = "Unbounded"
       /\ pc[t] = "read"
       /\ IF ~f.exists THEN Return(t, Err("io"))
          ELSE IF f.bytes = <<>> THEN Return(t, Err("File is empty"))
          ELSE IF ~decoded.ok THEN Return(t, Err("decode"))
          ELSE IF decoded.entries = <<>> THEN Return(t, Ok)
          ELSE /\ loc' = [loc EXCEPT ![t].entries = decoded.entries]
               /\ Goto(t, "read_insert")
       /\ UNCHANGED <<config, map, order, hits, misses, files, nops,
                      hist, recency, gets, ins, detached>>

\* A faulty read: a decoded entry stored only when its key is absent.
UnbReadInsertIfAbsent(t) ==
    LET c == args[t].self
        e == Head(loc[t].entries)
    IN /\ policy = "Unbounded"
       /\ pc[t] = "read_insert"
       /\ CanWrite(t, c, ShardOf(e[1]))
       /\ map' = [map EXCEPT ![c] =
                    IF e[1] \in DOMAIN @ THEN @ ELSE MapInsert(@, e[1], e[2])]
       /\ IF Tail(loc[t].entries) = <<>>
          THEN Return(t, Ok)
          ELSE /\ loc' = [loc EXCEPT ![t].entries = Tail(@)]
               /\ Stay(t)
       /\ Stored(c, e[1])
       /\ UNCHANGED <<config, order, hits, misses, files, nops,
                      hist, recency, gets, ins>>

\* read, lines 149-152: one map.insert per decoded entry, then Ok.
UnbReadInsert(t) ==
    LET c == args[t].self
        e == Head(loc[t].entries)
    IN /\ policy = "Unbounded"
       /\ pc[t] = "read_insert"
       /\ CanWrite(t, c, ShardOf(e[1]))
       /\ map' = [map EXCEPT ![c] = MapInsert(@, e[1], e[2])]
       /\ IF Tail(loc[t].entries) = <<>>
          THEN Return(t, Ok)
          ELSE /\ loc' = [loc EXCEPT ![t].entries = Tail(@)]
               /\ Stay(t)
       /\ Stored(c, e[1])
       /\ UNCHANGED <<config, order, hits, misses, files, nops,
                      hist, recency, gets, ins>>

\* ------------------------------------------------------------ file system

\* What another program can leave at the path: no bytes; a snapshot cut
\* short; a snapshot followed by one more byte; a string that is not UTF-8;
\* an element count no file can hold; a second element cut short.
ForeignFiles ==
    { <<>>,
      SubSeq(serialize(<<<<1, <<97>>>>>>), 1, Len(serialize(<<<<1, <<97>>>>>>)) - 1),
      serialize(<<<<1, <<98>>>>>>) \o <<0>>,
      serialize(<<<<2, <<255>>>>>>),
      [i \in 1..U64Len |-> 255],
      serialize_u64(2) \o serialize_entry(<<1, <<98>>>>) \o serialize_i32(2) }

\* A file system event between two calls leaves the run one of calls that
\* never overlapped.
AfterEvent ==
    IF hist.solo /\ Quiescent
    THEN [hist EXCEPT !.pre = NoSnapshot, !.saved = NoSaved]
    ELSE NoHist

\* Another program writes the file.  (The LRU policy never opens a file.)
EnvWriteFile ==
    /\ policy = "Unbounded"
    /\ nops < Budget
    /\ nops' = nops + 1
    /\ \E p \in {q \in Paths : Creatable(q)}, b \in ForeignFiles :
          files' = [files EXCEPT ![p] = File(b)]
    /\ hist' = AfterEvent
    /\ out' = NoOut
    /\ UNCHANGED <<config, map, order, hits, misses, pc, args, loc,
                   recency, gets, ins, detached, prev>>

\* Another program removes the file: a handle open on it keeps the old file.
EnvRemoveFile ==
    /\ policy = "Unbounded"
    /\ nops < Budget
    /\ nops' = nops + 1
    /\ \E p \in Paths :
          /\ files[p].exists
          /\ files' = [files EXCEPT ![p] = NoFile]
          /\ loc' = [t \in DOMAIN pc |->
                       IF args[t].path = p THEN [loc[t] EXCEPT !.linked = FALSE]
                       ELSE loc[t]]
    /\ hist' = AfterEvent
    /\ out' = NoOut
    /\ UNCHANGED <<config, map, order, hits, misses, pc, args,
                   recency, gets, ins, detached, prev>>

\* ------------------------------------------------------------------- spec

Call(t) ==
    \/ CallInsert(t)
    \/ CallGet(t)
    \/ CallRemove(t)
    \/ CallClear(t)
    \/ CallWrite(t)
    \/ CallRead(t)

LruStep(t) ==
    \/ LruInsertMap(t)
    \/ LruUpdateOrder(t)
    \/ LruEvictPop(t)
    \/ LruEvictRemove(t)
    \/ LruGetMap(t)
    \/ LruGetHit(t)
    \/ LruGetMiss(t)
    \/ LruRemoveMap(t)
    \/ LruRemoveOrder(t)
    \/ LruClearShard(t)
    \/ LruClearOrder(t)
    \/ LruTodo(t)

UnbStep(t) ==
    \/ UnbInsert(t)
    \/ UnbGetMap(t)
    \/ UnbGetHit(t)
    \/ UnbGetMiss(t)
    \/ UnbRemove(t)
    \/ UnbClearShard(t)
    \/ UnbWriteCreate(t)
    \/ UnbWriteCollect(t)
    \/ UnbWriteFlush(t)
    \/ UnbReadFile(t)
    \/ UnbReadInsert(t)

Env == EnvWriteFile \/ EnvRemoveFile

\* Threads sharing the handles of an LRU cache.
LruNext == \E t \in Threads : Call(t) \/ LruStep(t)
LruSpec == InitWith("LRU") /\ [][LruNext]_vars

\* The same threads under a fair scheduler: a thread inside a call that can
\* take its next step is not passed over for ever. The threads begin
\* MaxFairOps calls between them.
LruFairNext == \E t \in Threads : (nops < MaxFairOps /\ Call(t)) \/ LruStep(t)
LruFairSpec ==
    /\ InitWith("LRU")
    /\ [][LruFairNext]_vars
    /\ \A t \in Threads : WF_vars(LruStep(t))

\* Threads sharing the handles of two unbounded caches, and the file system.
UnbNext == (\E t \in Threads : Call(t) \/ UnbStep(t)) \/ Env
UnbSpec == InitWith("Unbounded") /\ [][UnbNext]_vars

\* test_multithreaded: thread i inserts its key i, then gets it.
TestInsert(t) ==
    /\ prev[t].op = "none"
    /\ Begin(t, [NoArgs EXCEPT !.op = "insert", !.key = t, !.value = TestValue(t)])

TestGet(t) ==
    /\ prev[t].op = "insert"
    /\ Begin(t, [NoArgs EXCEPT !.op = "get", !.key = t])

\* Every spawned thread has been joined.
Joined == \A t \in DOMAIN pc : pc[t] = "idle" /\ prev[t].op = "get"

\* test_multithreaded of the LRU cache.
LruTestNext ==
    \E t \in TestThreads :
        \/ TestInsert(t)
        \/ TestGet(t)
        \/ LruInsertMap(t)
        \/ LruUpdateOrder(t)
        \/ LruEvictPop(t)
        \/ LruEvictRemove(t)
        \/ LruGetMap(t)
        \/ LruGetHit(t)
        \/ LruGetMiss(t)
LruTestSpec == InitFor("LRU", TestThreads, NoArgs) /\ [][LruTestNext]_vars

\* test_multithreaded of the unbounded cache.  No step is given to a get
\* that missed: no get of the test does (C12).
UnbTestNext ==
    \E t \in TestThreads :
        \/ TestInsert(t)
        \/ TestGet(t)
        \/ UnbInsert(t)
        \/ UnbGetMap(t)
        \/ UnbGetHit(t)
UnbTestSpec == InitFor("Unbounded", TestThreads, NoArgs) /\ [][UnbTestNext]_vars

\* Either policy.
Next == (\E t \in Threads : Call(t) \/ LruStep(t) \/ UnbStep(t)) \/ Env
Spec == Init /\ [][Next]_vars

\* ------------------------------------------------------------- properties

len(c) == Cardinality(DOMAIN map[c])
is_empty(c) == len(c) = 0

\* C1: in every quiescent state of an LRU cache shared by threads that
\* insert, get, remove and clear, the map holds at most capacity entries.
C1_LenWithinCapacity ==
    (policy = "LRU" /\ Quiescent) => len("cache") <= capacity

\* A call on key k is under way, or an insert has popped k and is about to
\* remove it: where k stands among the keys held is not settled.
InFlight(k) ==
    \E u \in Threads :
        \/ Running(u) /\ args[u].op \in {"insert", "get", "remove"} /\ args[u].key = k
        \/ pc[u] = "evict_remove" /\ loc[u].oldest.val = k

\* The last touch of f is older than the last touch of k.
TouchedBefore(f, k) ==
    /\ Position(recency, f) # 0
    /\ Position(recency, f) < Position(recency, k)

\* The step of thread t in which its insert pops the key it evicts.
Evicts(t) == pc[t] = "evict_if_needed" /\ pc'[t] = "evict_remove"

\* C2: whenever an insert of an LRU cache evicts a key, that key's most recent
\* touch (insert or successful get) is older than the most recent touch of
\* every other key the cache holds at that moment.
C2_EvictsLeastRecentlyTouched ==
    [][\A t \in Threads :
          (Evicts(t) /\ loc'[t].oldest.val \in DOMAIN map["cache"]) =>
              \A k \in DOMAIN map["cache"] \ {loc'[t].oldest.val} :
                  ~InFlight(k) => TouchedBefore(loc'[t].oldest.val, k)]_vars

\* C2, calls that never overlap: the evicted key is the least recently touched
\* of the keys held.
C2_SoloEvictsLeastRecentlyTouched ==
    [][\A t \in Threads :
          (hist.solo /\ Evicts(t)) =>
              /\ loc'[t].oldest.val \in DOMAIN map["cache"]
              /\ \A k \in DOMAIN map["cache"] \ {loc'[t].oldest.val} :
                     TouchedBefore(loc'[t].oldest.val, k)]_vars

\* The call that returned in the last step.
Returned(op) == out.call.op = op

\* The call that returned in the last step ran alone, as every call before it.
ReturnedSolo(op) == Returned(op) /\ hist.solo /\ hist.pre.taken

\* C3: for either policy, write(path) succeeds unless the file system fails
\* it, and a read(path) of the file it left, into an empty cache of the same
\* policy, succeeds and leaves that cache with the written cache's keys and
\* values.
C3_RoundTrip ==
    /\ Returned("write") => out.ret \in {Ok, Err("io")}
    /\ (ReturnedSolo("read") /\ hist.pre.map = EmptyMap
            /\ hist.saved.path = out.call.path) =>
           /\ out.ret = Ok
           /\ map[out.call.self] = hist.saved.map

\* Thread t's read returns an error in this step.
ReadFails(t) == args[t].op = "read" /\ out'.t = t /\ out'.ret.kind = "Err"

\* Thread t's read looks at its file in this step.
ReadsFile(t) == args[t].op = "read" /\ pc[t] = "read" /\ pc'[t] # "read"

\* C4: a read that returns an error has not touched the cache: it fails
\* before its first insert, in a step that leaves every map as it is, so a
\* read that ran alone leaves the entries the cache had when it began; and a
\* read of a file of zero bytes returns an error.
C4_FailedReadLeavesCacheUntouched ==
    [][\A t \in Threads :
          /\ ReadFails(t) =>
                /\ pc[t] = "read"
                /\ map' = map
                /\ (hist.solo /\ hist.pre.taken) => map'[args[t].self] = hist.pre.map
          /\ (ReadsFile(t) /\ files[args[t].path] = File(<<>>)) =>
                out'.t = t /\ out'.ret = Err("File is empty")
          /\ (ReadsFile(t) /\ (~files[args[t].path].exists
                               \/ ~deserialize(files[args[t].path].bytes).ok)) =>
                ReadFails(t)]_vars

\* C4, reached: a file whose second element is cut short, read into a cache
\* that holds another value for the key of its first element.
C4_Witness ==
    /\ ReturnedSolo("read")
    /\ out.ret = Err("decode")
    /\ deserialize_u64(files[out.call.path].bytes, 1).val = 2
    /\ map[out.call.self] = MapInsert(EmptyMap, 1, <<97>>)

\* C5: a write or a read of either policy returns Ok or Err to its caller; no
\* thread panics in one.
C5_WriteReadNeverPanic ==
    /\ \A t \in Threads : pc[t] # "panicked"
    /\ (Returned("write") \/ Returned("read")) => out.ret.kind \in {"Ok", "Err"}

\* Thread t's get returns in this step.
GetReturns(t) == args[t].op = "get" /\ out'.t = t

\* The counters of handle c go up by dh hits and dm misses in this step.
Counted(c, dh, dm) == hits'[c] = hits[c] + dh /\ misses'[c] = misses[c] + dm

\* C6: for either policy, a get that found its key returns Some and adds
\* exactly one hit and no miss, a get that did not returns None and adds
\* exactly one miss and no hit, nothing else moves a counter, and so
\* hits() + misses() is the number of get calls that have returned.
C6_HitMissAccounting ==
    [][/\ \A t \in Threads :
             GetReturns(t) =>
                /\ out'.ret.kind \in {"Some", "None"}
                /\ (pc[t] = "add_hit") = (out'.ret.kind = "Some")
                /\ IF out'.ret.kind = "Some"
                   THEN Counted(args[t].self, 1, 0)
                   ELSE Counted(args[t].self, 0, 1)
                /\ (hist.solo /\ hist.pre.taken) =>
                      (out'.ret = MapGet(hist.pre.map, args[t].key))
       /\ \A c \in Instances(policy) :
             /\ (\A t \in Threads : ~(GetReturns(t) /\ args[t].self = c)) =>
                   Counted(c, 0, 0)
             /\ hits'[c] + misses'[c] = gets'[c]]_vars

\* C6, reached: two threads have run gets on one LRU cache, a hit and a miss.
C6_Witness ==
    /\ policy = "LRU"
    /\ ~hist.solo
    /\ Returned("get")
    /\ hits["cache"] = 1
    /\ misses["cache"] = 1

\* C7: once the inserts of several threads on an unbounded cache that was
\* only inserted into have all returned, its keys are the distinct keys
\* inserted, each with a value some insert wrote for it.
C7_UnboundedKeepsEveryInsert ==
    \A c \in Instances(policy) :
        (policy = "Unbounded" /\ Quiescent /\ ins[c].only) =>
            /\ DOMAIN map[c] = {kv[1] : kv \in ins[c].pairs}
            /\ len(c) = Cardinality({kv[1] : kv \in ins[c].pairs})
            /\ \A k \in DOMAIN map[c] : <<k, map[c][k]>> \in ins[c].pairs

\* C7, reached: overlapping inserts of two keys, one of them inserted with
\* two values.
C7_Witness ==
    /\ policy = "Unbounded"
    /\ Quiescent
    /\ ~hist.solo
    /\ ins["cache"].only
    /\ ins["cache"].pairs = {<<1, <<97>>>>, <<1, <<98>>>>, <<2, <<97>>>>}
    /\ len("cache") = 2

\* The insert that returned in the last step, run alone, stored a pair the
\* cache held already.
ReinsertedPair ==
    /\ ReturnedSolo("insert")
    /\ MapGet(hist.pre.map, out.call.key) = Some(out.call.value)

\* C8: for either policy, an insert of a pair the cache holds leaves len()
\* and every entry as they were, the value still retrievable; in an LRU cache
\* holding capacity keys it evicts nothing and only moves the key to the
\* most recent end of the order.
C8_InsertIdempotent ==
    ReinsertedPair =>
        /\ map[out.call.self] = hist.pre.map
        /\ len(out.call.self) = Cardinality(DOMAIN hist.pre.map)
        /\ MapGet(map[out.call.self], out.call.key) = Some(out.call.value)
        /\ (policy = "LRU" /\ Cardinality(DOMAIN hist.pre.map) = capacity) =>
              order[out.call.self] =
                  Append(SelectSeq(hist.pre.order, LAMBDA x : x # out.call.key),
                         out.call.key)

\* C8, reached: an LRU cache of capacity 2 holding keys 1 and 2, key 1 the
\* least recent, after the pair of key 1 was inserted again.
C8_Witness ==
    /\ policy = "LRU"
    /\ capacity = 2
    /\ ReinsertedPair
    /\ hist.pre.order = <<1, 2>>
    /\ order["cache"] = <<2, 1>>
    /\ len("cache") = 2

\* Thread t's remove acts on the map in this step.
RemoveTakes(t) == args[t].op = "remove" /\ pc[t] = "remove" /\ pc'[t] # "remove"

\* What the remove of thread t has in hand after that step: the result it
\* returned, or the value it holds while it updates the order.
Taken(t) == IF pc'[t] = "remove_order" THEN Some(loc'[t].value) ELSE out'.ret

\* C9: for either policy, a remove takes the value stored for its key and
\* leaves the key absent, in one step, and returns what it took; a key whose
\* value a remove took stays absent until it is stored again, so until then
\* every other remove of it, following or concurrent, takes None.
C9_RemoveDetaches ==
    [][/\ \A t \in Threads :
             /\ RemoveTakes(t) =>
                   /\ Taken(t) = MapGet(map[args[t].self], args[t].key)
                   /\ args[t].key \notin DOMAIN map'[args[t].self]
                   /\ <<args[t].self, args[t].key>> \in detached => Taken(t) = None
             /\ (args[t].op = "remove" /\ pc[t] = "remove_order" /\ out'.t = t) =>
                   out'.ret = Some(loc[t].value)
       /\ \A d \in detached' : d[2] \notin DOMAIN map'[d[1]]]_vars

\* C9, reached: two threads remove one key of an LRU cache at once; one holds
\* the value, the other has returned None.
C9_Witness ==
    /\ policy = "LRU"
    /\ Returned("remove")
    /\ out.ret = None
    /\ \E u \in Threads :
          /\ pc[u] = "remove_order"
          /\ args[u].key = out.call.key
          /\ u # out.t

RECURSIVE Load(_, _)
\* The map m after the entries were stored in it, one after the other.
Load(m, entries) ==
    IF entries = <<>> THEN m
    ELSE Load(MapInsert(m, Head(entries)[1], Head(entries)[2]), Tail(entries))

\* The keys and values of the snapshot the bytes b hold.
SnapshotOf(b) == Load(EmptyMap, deserialize(b).entries)

\* C10: after a read that ran alone returned Ok, the cache holds the keys it
\* held before and the keys of the snapshot: a key of the snapshot with the
\* snapshot's value, any other key with the value it had.
C10_ReadMerges ==
    (ReturnedSolo("read") /\ out.ret = Ok) =>
        LET snapshot == SnapshotOf(files[out.call.path].bytes)
            now == map[out.call.self]
        IN /\ DOMAIN now = DOMAIN hist.pre.map \cup DOMAIN snapshot
           /\ \A k \in DOMAIN now :
                  now[k] = IF k \in DOMAIN snapshot THEN snapshot[k]
                           ELSE hist.pre.map[k]

\* C10, reached: a snapshot holding (1, "b") read into a cache that held
\* (1, "a") and (2, "a").
C10_Witness ==
    /\ ReturnedSolo("read")
    /\ out.ret = Ok
    /\ hist.pre.map = MapInsert(MapInsert(EmptyMap, 1, <<97>>), 2, <<97>>)
    /\ map[out.call.self] = MapInsert(MapInsert(EmptyMap, 1, <<98>>), 2, <<97>>)

\* Thread t, running a call of op, takes a step.
StepOf(t, op) == args[t].op = op /\ (pc'[t] # pc[t] \/ loc'[t] # loc[t])

\* C11: for either policy, no step of a write changes an entry or a counter
\* of any cache, whether the write ends in Ok or in an error; so after a
\* write that ran alone the cache's entries, len(), hits() and misses() are
\* those it had when the write began.
C11_WriteLeavesCacheUntouched ==
    [][\A t \in Threads :
          /\ StepOf(t, "write") =>
                map' = map /\ order' = order /\ hits' = hits /\ misses' = misses
          /\ (args[t].op = "write" /\ out'.t = t /\ hist.solo /\ hist.pre.taken) =>
                /\ map'[args[t].self] = hist.pre.map
                /\ Cardinality(DOMAIN map'[args[t].self]) = Cardinality(DOMAIN hist.pre.map)
                /\ hits'[args[t].self] = hist.pre.hits
                /\ misses'[args[t].self] = hist.pre.misses]_vars

\* C11, reached: a write of a cache with one entry and one hit has failed
\* after it created its file.
C11_Witness ==
    /\ ReturnedSolo("write")
    /\ out.ret = Err("io")
    /\ files[out.call.path].exists
    /\ len(out.call.self) = 1
    /\ hits[out.call.self] = 1

\* C12: the threads of test_multithreaded hold clones of one unbounded cache;
\* each inserts its own key and gets it.  No get misses, every get returns
\* the value its thread inserted, and once the threads are joined the cache
\* holds every thread's key with its value.
C12_ClonesShareStorage ==
    /\ \A t \in DOMAIN pc : pc[t] # "add_miss"
    /\ Returned("get") => out.ret = Some(TestValue(out.call.key))
    /\ Joined => \A i \in DOMAIN pc : MapGet(map["cache"], i) = Some(TestValue(i))

\* C12, reached: the three threads are joined, their keys in one shard.
C12_Witness ==
    /\ policy = "Unbounded"
    /\ Joined
    /\ shard_amount = 1
    /\ len("cache") = NumTestThreads

\* C13: once the threads of test_multithreaded, more than the capacity of the
\* LRU cache they share, have each inserted and got their key and are joined,
\* len() is the capacity.
C13_TestLenIsCapacity ==
    (policy = "LRU" /\ Joined /\ capacity < Cardinality(DOMAIN pc)) =>
        len("cache") = capacity

\* C14: in test_multithreaded of the LRU cache, the get a thread runs right
\* after its insert returns the value it inserted.
C14_TestGetFindsOwnInsert ==
    (policy = "LRU" /\ Returned("get") /\ prev[out.t].op = "get") =>
        out.ret = Some(TestValue(out.call.key))

\* The keys the order q holds.
OrderKeys(q) == {q[i] : i \in 1..Len(q)}

\* The order q holds no key twice.
NoDuplicate(q) == \A i, j \in 1..Len(q) : q[i] = q[j] => i = j

\* C15: in every quiescent state of an LRU cache shared by threads that
\* insert, get, remove and clear, the keys of the order are the keys of the
\* map.
C15_QuiescentOrderIsMap ==
    (policy = "LRU" /\ Quiescent) => OrderKeys(order["cache"]) = DOMAIN map["cache"]

\* C16: in every state of an LRU cache shared by threads that insert, get,
\* remove and clear, the order holds no key twice.
C16_OrderHasNoDuplicate ==
    policy = "LRU" => NoDuplicate(order["cache"])

\* C16, reached: an insert and a get of one key have both touched it, with
\* another key in the order.
C16_Witness ==
    /\ policy = "LRU"
    /\ Len(order["cache"]) = 2
    /\ \E t, u \in DOMAIN pc :
          /\ pc[t] = "evict_if_needed"
          /\ pc[u] = "add_hit"
          /\ args[t].key = args[u].key

\* C17: an LRU get whose key is absent takes the miss branch; its steps
\* leave the map, the order and the hits as they are, and it returns None
\* with one miss more; after one that ran alone, map, order and hits are
\* those it began with.
C17_MissLeavesOrderAndMap ==
    [][\A t \in DOMAIN pc :
          (policy = "LRU" /\ StepOf(t, "get")) =>
             /\ pc[t] = "get" =>
                   (pc'[t] = "add_miss") = (args[t].key \notin DOMAIN map[args[t].self])
             /\ (pc'[t] = "add_miss" \/ pc[t] = "add_miss") =>
                   map' = map /\ order' = order /\ hits' = hits
             /\ pc'[t] = "add_miss" => misses' = misses
             /\ pc[t] = "add_miss" =>
                   /\ out'.t = t /\ out'.ret = None
                   /\ Counted(args[t].self, 0, 1)
                   /\ (hist.solo /\ hist.pre.taken) =>
                         /\ map'[args[t].self] = hist.pre.map
                         /\ order'[args[t].self] = hist.pre.order
                         /\ hits'[args[t].self] = hist.pre.hits
                         /\ misses'[args[t].self] = hist.pre.misses + 1]_vars

\* C17, reached: a get has missed in an LRU cache whose order holds two keys.
C17_Witness ==
    /\ policy = "LRU"
    /\ ReturnedSolo("get")
    /\ out.ret = None
    /\ order["cache"] = <<1, 2>>
    /\ misses["cache"] = 1

\* C18: for either policy, no step lowers hits() or misses(), and only a
\* step of a get changes one of them: insert, remove, clear, write, read and
\* the file system leave both as they are.
C18_CountersMonotone ==
    [][/\ \A c \in Instances(policy) : hits'[c] >= hits[c] /\ misses'[c] >= misses[c]
       /\ (hits' # hits \/ misses' # misses) => \E t \in DOMAIN pc : StepOf(t, "get")]_vars

\* C18, reached: a clear has returned on an unbounded cache that counts one
\* hit and one miss.
C18_Witness ==
    /\ policy = "Unbounded"
    /\ Returned("clear")
    /\ hits[out.call.self] = 1
    /\ misses[out.call.self] = 1

\* C20: in an LRU cache whose calls never overlap, after every call that
\* returned the keys of the order are the keys of the map, once each, and no
\* more than the capacity; after a clear, map and order are empty.
C20_SoloOrderIsMap ==
    (policy = "LRU" /\ hist.solo /\ Quiescent) =>
        /\ OrderKeys(order["cache"]) = DOMAIN map["cache"]
        /\ NoDuplicate(order["cache"])
        /\ Len(order["cache"]) <= capacity
        /\ Returned("clear") =>
              /\ order["cache"] = <<>>
              /\ len("cache") = 0
              /\ is_empty("cache")

\* C20, reached: a clear of an LRU cache that held two keys has returned.
C20_Witness ==
    /\ policy = "LRU"
    /\ ReturnedSolo("clear")
    /\ hist.pre.order = <<1, 2>>
    /\ is_empty("cache")

\* Thread t waits for the write lock of a shard that a get of another thread
\* holds a guard on.
Blocked(t) ==
    /\ pc[t] \in {"insert", "remove"}
    /\ ~CanWrite(t, args[t].self, ShardOf(args[t].key))

\* C19: under a fair scheduler every insert, get, remove and clear of an LRU
\* cache shared by threads returns, whatever the other threads call.
C19_EveryCallReturns ==
    \A t \in Threads :
        (Running(t) /\ args[t].op \in {"insert", "get", "remove", "clear"})
            ~> (pc[t] = "idle")

\* C19, reached: an insert waits for the shard that a get of another thread
\* holds while that get takes the order lock.
C19_Witness ==
    /\ policy = "LRU"
    /\ \E t, u \in Threads :
          /\ Blocked(t)
          /\ args[t].op = "insert"
          /\ HoldsGuard(u)
          /\ pc[u] = "update_order"

\* C21: in an LRU cache whose calls never overlap, a remove of a key the map
\* holds returns its value and leaves map and order without that key, one
\* entry fewer; a remove of a key the map does not hold returns None and
\* leaves map and order as they were; and an insert of a new key into a
\* cache that holds fewer keys than its capacity, as after such a remove
\* from a full cache, adds the key and evicts nothing.
C21_RemoveFreesSlot ==
    LET k == out.call.key
        pre == hist.pre
    IN policy = "LRU" =>
          /\ (ReturnedSolo("remove") /\ k \in DOMAIN pre.map) =>
                /\ out.ret = Some(pre.map[k])
                /\ map["cache"] = MapRemove(pre.map, k)
                /\ order["cache"] = RemoveAt(pre.order, Position(pre.order, k))
                /\ k \notin OrderKeys(order["cache"])
                /\ len("cache") = Cardinality(DOMAIN pre.map) - 1
          /\ (ReturnedSolo("remove") /\ k \notin DOMAIN pre.map) =>
                /\ out.ret = None
                /\ map["cache"] = pre.map
                /\ order["cache"] = pre.order
          /\ (ReturnedSolo("insert") /\ k \notin DOMAIN pre.map
                  /\ Cardinality(DOMAIN pre.map) < capacity) =>
                /\ map["cache"] = MapInsert(pre.map, k, out.call.value)
                /\ order["cache"] = Append(pre.order, k)

\* C21, reached: a cache of capacity 2 after insert of key 2, insert of key
\* 1, remove of key 1 and insert of key 3, one call after the other: keys 2
\* and 3 are held.
C21_Witness ==
    /\ policy = "LRU"
    /\ capacity = 2
    /\ nops = 4
    /\ ReturnedSolo("insert")
    /\ out.call.key = 3
    /\ recency = <<2, 1, 3>>
    /\ <<"cache", 1>> \in detached
    /\ DOMAIN hist.pre.map = {2}
    /\ DOMAIN map["cache"] = {2, 3}
    /\ order["cache"] = <<2, 3>>

====
